---- MODULE Spec2Model ----
(***************************************************************************)
(* find_missing_episodes.py: the reconciliation of a Plex TV library with  *)
(* TVDB.  main() submits one check_show per show to a thread pool of       *)
(* max_workers threads, collects the futures as they complete into         *)
(* shows_with_missing and writes the CSV report.                           *)
(*                                                                         *)
(* Python values.  A value read from a JSON payload or from plexapi is a   *)
(* tagged tuple: Absent (the key is not in the dict), Null (None),         *)
(* IntV(n), StrV(s).  A dict is a function on its key set.                   *)
(***************************************************************************)
EXTENDS Integers, Sequences, FiniteSets, TLC

Absent == <<"absent">>
Null == <<"null">>
IntV(n) == <<"int", n>>
StrV(s) == <<"str", s>>

IsInt(v) == v[1] = "int"
IsStr(v) == v[1] = "str"

\* dict.get(key): None when the key is absent.
Get(v) == IF v = Absent THEN Null ELSE v

\* dict.get(key, default): the default only when the key is absent.
GetDefault(v, default) == IF v = Absent THEN default ELSE v

\* Python truthiness of None, an int or a str.
Truthy(v) ==
    CASE v = Null -> FALSE
      [] v = Absent -> FALSE
      [] IsInt(v) -> v[2] # 0
      [] IsStr(v) -> v[2] # ""

EmptyDict == [k \in {} |-> {}]

\* d[k] = v on a dict.
DictPut(d, k, v) == [x \in DOMAIN d \cup {k} |-> IF x = k THEN v ELSE d[x]]

\* defaultdict access d[k]: the factory's value when k is not a key yet.
DictGetOr(d, k, default) == IF k \in DOMAIN d THEN d[k] ELSE default

SetMin(S) == CHOOSE m \in S : \A y \in S : m <= y
SetMax(S) == CHOOSE m \in S : \A y \in S : y <= m

\* sorted(d.keys()) with reverse=True: the keys in descending order.
RECURSIVE SortedDescending(_)
SortedDescending(S) ==
    IF S = {} THEN <<>>
    ELSE LET m == SetMax(S) IN <<m>> \o SortedDescending(S \ {m})

\* sorted(d.keys()) on integer keys: the keys in ascending order.
RECURSIVE sorted(_)
sorted(S) ==
    IF S = {} THEN <<>>
    ELSE LET m == SetMin(S) IN <<m>> \o sorted(S \ {m})

\* The titles of the modelled libraries and their code-point order, the order
\* of Python's str comparison.
Titles == {"A", "B"}
TitleOrd(t) == CASE t = "A" -> 1 [] t = "B" -> 2
TitleOf(n) == CHOOSE t \in Titles : TitleOrd(t) = n

\* sorted(shows_with_missing.keys()) on str keys.
sorted_names(S) ==
    LET ords == sorted({TitleOrd(t) : t \in S})
    IN [i \in DOMAIN ords |-> TitleOf(ords[i])]

RECURSIVE SumSeq(_)
SumSeq(s) == IF s = <<>> THEN 0 ELSE Head(s) + SumSeq(Tail(s))

RECURSIVE Flatten(_)
Flatten(ss) == IF ss = <<>> THEN <<>> ELSE Head(ss) \o Flatten(Tail(ss))

(***************************************************************************)
(* get_plex_episodes: the loop over show.episodes(), an entry kept when    *)
(* both numbers are not None and the season is above 0.                    *)
(***************************************************************************)
PlexKeeps(episode) ==
    /\ episode.seasonNumber # Null
    /\ episode.episodeNumber # Null
    /\ episode.seasonNumber[2] > 0

RECURSIVE PlexLoop(_, _)
PlexLoop(raw, episodes_by_season) ==
    IF raw = <<>> THEN episodes_by_season
    ELSE LET episode == Head(raw)
             season_num == episode.seasonNumber[2]
             episode_num == episode.episodeNumber[2]
         IN PlexLoop(Tail(raw),
                IF PlexKeeps(episode)
                THEN DictPut(episodes_by_season, season_num,
                         DictGetOr(episodes_by_season, season_num, {})
                             \cup {episode_num})
                ELSE episodes_by_season)

get_plex_episodes(raw) == PlexLoop(raw, EmptyDict)

(***************************************************************************)
(* get_tvdb_episodes, lines 159-173: the loop over the fetched episodes.   *)
(* `season_num and episode_num and season_num > 0` short-circuits, and     *)
(* comparing a str season with 0 raises TypeError.                         *)
(***************************************************************************)
TvdbRaises(episode) ==
    LET season_num == Get(episode.seasonNumber)
        episode_num == Get(episode.number)
    IN Truthy(season_num) /\ Truthy(episode_num) /\ ~IsInt(season_num)

TvdbKeeps(episode) ==
    LET season_num == Get(episode.seasonNumber)
        episode_num == Get(episode.number)
    IN Truthy(season_num) /\ Truthy(episode_num) /\ season_num[2] > 0

EpisodeData(episode) ==
    [title |-> GetDefault(episode.name, StrV("Unknown Title")),
     aired |-> GetDefault(episode.aired, StrV(""))]

\* The result of a call: a value, or an exception that left the function.
Returned(v) == [raised |-> FALSE, value |-> v]
Raised == [raised |-> TRUE]

RECURSIVE TvdbLoop(_, _)
TvdbLoop(episodes, episodes_by_season) ==
    IF episodes = <<>> THEN Returned(episodes_by_season)
    ELSE LET episode == Head(episodes)
             season_num == Get(episode.seasonNumber)[2]
             episode_num == Get(episode.number)[2]
         IN IF TvdbRaises(episode) THEN Raised
            ELSE TvdbLoop(Tail(episodes),
                     IF TvdbKeeps(episode)
                     THEN DictPut(episodes_by_season, season_num,
                              DictPut(DictGetOr(episodes_by_season, season_num, EmptyDict),
                                      episode_num, EpisodeData(episode)))
                     ELSE episodes_by_season)

\* The list walked from its end: of two entries with one key the first wins.
Reverse(list) == [k \in 1..Len(list) |-> list[Len(list) + 1 - k]]
normalize_tvdb_first(episodes) == TvdbLoop(Reverse(episodes), EmptyDict)

normalize_tvdb(episodes) == TvdbLoop(episodes, EmptyDict)

(***************************************************************************)
(* find_missing_episodes: for every season of tvdb_episodes, the episodes  *)
(* whose number is not in the season's Plex set.  missing[season_num] is   *)
(* created only by the first episode stored in it.                         *)
(***************************************************************************)
\* The comparison turned around: what Plex holds and TVDB does not list.
find_missing_swapped(plex_episodes, tvdb_episodes) ==
    LET extra(s) == DictGetOr(plex_episodes, s, {}) \ DOMAIN tvdb_episodes[s]
        seasons == {s \in DOMAIN tvdb_episodes : extra(s) # {}}
    IN [s \in seasons |->
           [e \in extra(s) |-> [title |-> StrV("Unknown Title"), aired |-> StrV("")]]]

\* The membership test dropped: every TVDB episode is reported.
find_missing_all(plex_episodes, tvdb_episodes) ==
    LET seasons == {s \in DOMAIN tvdb_episodes : DOMAIN tvdb_episodes[s] # {}}
    IN [s \in seasons |-> tvdb_episodes[s]]

\* missing[season_num] created for every TVDB season, with or without a gap.
find_missing_seasons(plex_episodes, tvdb_episodes) ==
    [s \in DOMAIN tvdb_episodes |->
        [e \in DOMAIN tvdb_episodes[s] \ DictGetOr(plex_episodes, s, {}) |->
            tvdb_episodes[s][e]]]

\* The inner loop, lines 186-188, over one season's TVDB episodes.
RECURSIVE MissingEpisodeLoop(_, _, _, _, _)
MissingEpisodeLoop(episode_nums, season_num, tvdb_eps, plex_eps, missing) ==
    IF episode_nums = <<>> THEN missing
    ELSE LET episode_num == Head(episode_nums)
         IN MissingEpisodeLoop(Tail(episode_nums), season_num, tvdb_eps, plex_eps,
                IF episode_num \notin plex_eps
                THEN DictPut(missing, season_num,
                         DictPut(DictGetOr(missing, season_num, EmptyDict),
                                 episode_num, tvdb_eps[episode_num]))
                ELSE missing)

\* The outer loop, lines 181-183, over sorted(tvdb_episodes.keys()).
RECURSIVE MissingSeasonLoop(_, _, _, _)
MissingSeasonLoop(season_nums, plex_episodes, tvdb_episodes, missing) ==
    IF season_nums = <<>> THEN missing
    ELSE LET season_num == Head(season_nums)
             tvdb_eps == tvdb_episodes[season_num]
             plex_eps == DictGetOr(plex_episodes, season_num, {})
         IN MissingSeasonLoop(Tail(season_nums), plex_episodes, tvdb_episodes,
                MissingEpisodeLoop(sorted(DOMAIN tvdb_eps), season_num,
                                   tvdb_eps, plex_eps, missing))

find_missing_episodes(plex_episodes, tvdb_episodes) ==
    MissingSeasonLoop(sorted(DOMAIN tvdb_episodes), plex_episodes,
                      tvdb_episodes, EmptyDict)

\* sum(len(season_eps) for season_eps in missing.values())
total_missing(missing) ==
    LET seasons == sorted(DOMAIN missing)
    IN SumSeq([i \in DOMAIN seasons |-> Cardinality(DOMAIN missing[seasons[i]])])

\* The (season, episode) keys of an inventory or of a missing table.
Keys(table) == UNION {{<<s, e>> : e \in DOMAIN table[s]} : s \in DOMAIN table}

(***************************************************************************)
(* get_tvdb_episodes, lines 148-154: the series is results[0] unless the   *)
(* show has a year and there are several results, and then the first       *)
(* result whose year, as a str, equals the show's year as a str.           *)
(***************************************************************************)
\* str() of the modelled years: an int is formatted, a str is itself.
PyStr(v) ==
    IF IsStr(v) THEN v[2]
    ELSE CASE v[2] = 2010 -> "2010"
           [] v[2] = 2015 -> "2015"
           [] OTHER -> "other"

RECURSIVE YearLoop(_, _, _)
YearLoop(results, show_year, series) ==
    IF results = <<>> THEN series
    ELSE LET result == Head(results)
         IN IF Truthy(Get(result.year)) /\ PyStr(Get(result.year)) = PyStr(show_year)
            THEN result
            ELSE YearLoop(Tail(results), show_year, series)

\* The year ignored: always the first result.
select_first(results, show_year) == results[1]

select_series(results, show_year) ==
    IF Truthy(show_year) /\ Len(results) > 1
    THEN YearLoop(results, show_year, results[1])
    ELSE results[1]

(***************************************************************************)
(* format_episode_ranges, lines 193-218.  A str is the sequence of its     *)
(* characters.                                                             *)
(***************************************************************************)
Digits == <<"0", "1", "2", "3", "4", "5", "6", "7", "8", "9">>

\* str(n) of an int n >= 0: its decimal digits.
RECURSIVE Str(_)
Str(n) == IF n < 10 THEN <<Digits[n + 1]>> ELSE Str(n \div 10) \o <<Digits[(n % 10) + 1]>>

\* ', '.join(ranges)
RECURSIVE Join(_)
Join(ranges) ==
    IF ranges = <<>> THEN <<>>
    ELSE IF Len(ranges) = 1 THEN ranges[1]
    ELSE ranges[1] \o <<",", " ">> \o Join(Tail(ranges))

\* Lines 206-209 and 213-216: str(start), or f"{start}-{end}".
RangeToken(start, end) ==
    IF start = end THEN Str(start) ELSE Str(start) \o <<"-">> \o Str(end)

\* Lines 202-210: the loop over episodes[1:].
RECURSIVE RangeLoop(_, _, _, _)
RangeLoop(rest, start, end, ranges) ==
    IF rest = <<>> THEN Append(ranges, RangeToken(start, end))
    ELSE LET ep == Head(rest)
         IN IF ep = end + 1
            THEN RangeLoop(Tail(rest), start, ep, ranges)
            ELSE RangeLoop(Tail(rest), ep, ep, Append(ranges, RangeToken(start, end)))

\* Every number a token of its own: no run is compacted.
format_episode_singles(episodes) == Join([k \in DOMAIN episodes |-> Str(episodes[k])])

format_episode_ranges(episodes) ==
    IF episodes = <<>> THEN <<>>
    ELSE Join(RangeLoop(Tail(episodes), episodes[1], episodes[1], <<>>))

(***************************************************************************)
(* The state.  The provider snapshot (all_shows, search_db, episode_db) is *)
(* fixed by Init; the rest is main()'s and the workers' state.             *)
(***************************************************************************)
VARIABLES
    all_shows,          \* tv_section.all(): title, year, and what show.episodes() gives
    search_db,          \* title -> the response of GET /search
    episode_db,         \* series id -> the responses of its pages 0, 1, ...
    login,              \* the response of POST /login
    main_pc,            \* "connect", "auth_failed", "run", "raising", "aborted", "done"
    token,              \* tvdb.token
    future_to_show,     \* the number of tasks submitted so far, in list order
    collected,          \* the futures as_completed has yielded to main
    shows_with_missing, \* show_name -> missing table
    stdout,             \* the CSV rows written, the header first
    pc,                 \* per task: "new", "queued", "search", "fetch", "done"
    plex_episodes,      \* per task: check_show's plex_episodes
    series_id,          \* per task: series["tvdb_id"]
    page,               \* per task: get_series_episodes' page
    episodes,           \* per task: get_series_episodes' episodes
    tvdb_episodes,      \* per task: check_show's tvdb_episodes (a dict, or None)
    future,             \* per task: the future's state, and its result
    progress,           \* per task: the progress line check_show printed
    warning,            \* per task: the warning the TVDB client printed
    stderr,             \* per task: the lines it printed, each with the lock's state
    requests,           \* per task: the TVDB requests it issued, in order
    run_no,             \* which run of the program this is
    previous_stdout,    \* the stdout of the run before
    range_pc,           \* format_episode_ranges: "call", "returned"
    range_episodes,     \* format_episode_ranges' argument
    range_string        \* format_episode_ranges' return value, its characters

snapshot == <<all_shows, search_db, episode_db, login>>
main_vars == <<main_pc, token, future_to_show, collected, shows_with_missing, stdout>>
worker_vars == <<pc, plex_episodes, series_id, page, episodes, tvdb_episodes,
                 future, progress, warning, stderr, requests>>
run_vars == <<run_no, previous_stdout>>
range_vars == <<range_pc, range_episodes, range_string>>
vars == <<snapshot, main_vars, worker_vars, run_vars, range_vars>>

Tasks == 1..Len(all_shows)

\* max_workers = 10
max_workers == 10

NoFuture == [state |-> "pending"]
FutureException == [state |-> "exception"]
FutureResult(show_name, missing) ==
    [state |-> "result", show_name |-> show_name,
     is_none |-> (missing = EmptyDict), missing |-> missing]

\* get_tvdb_episodes' return value: None, or the dict episodes_by_season.
NotFetched == [state |-> "unset"]
TvdbNone == [state |-> "none"]
TvdbDict(d) == [state |-> "dict", value |-> d]

NoLine == [line |-> "none"]
NotFoundLine == [line |-> "not_found"]
CheckmarkLine == [line |-> "ok"]
MissingLine(n) == [line |-> "missing", count |-> n]

NoWarning == <<>>
SearchWarning == <<"search">>
PageWarning(p) == <<"page", p>>

Header == <<"Show Name", "Season", "Episode", "Episode Title", "Air Date">>

\* The state main() and the pool start a run in.
StartOfRun ==
    /\ main_pc = "connect"
    /\ token = Null
    /\ future_to_show = 0
    /\ collected = {}
    /\ shows_with_missing = EmptyDict
    /\ stdout = <<>>
    /\ pc = [i \in Tasks |-> "new"]
    /\ plex_episodes = [i \in Tasks |-> EmptyDict]
    /\ series_id = [i \in Tasks |-> Null]
    /\ page = [i \in Tasks |-> 0]
    /\ episodes = [i \in Tasks |-> <<>>]
    /\ tvdb_episodes = [i \in Tasks |-> NotFetched]
    /\ future = [i \in Tasks |-> NoFuture]
    /\ progress = [i \in Tasks |-> NoLine]
    /\ warning = [i \in Tasks |-> NoWarning]
    /\ stderr = [i \in Tasks |-> <<>>]
    /\ requests = [i \in Tasks |-> <<>>]

\* format_episode_ranges has no caller in main(): it is not called in a run.
NoRangeCall ==
    /\ range_pc = "returned"
    /\ range_episodes = <<>>
    /\ range_string = <<>>

(***************************************************************************)
(* The provider snapshots.                                                 *)
(***************************************************************************)
PlexEpisode(s, e) == [seasonNumber |-> s, episodeNumber |-> e]
TvdbEpisode(s, e, name, aired) ==
    [seasonNumber |-> s, number |-> e, name |-> name, aired |-> aired]
SearchResult(id, year) == [tvdb_id |-> id, year |-> year]
Show(title, year, eps) == [title |-> title, year |-> year, episodes |-> eps]

\* show.episodes(): the list, or an exception of the Plex connection.
PlexList(list) == [ok |-> TRUE, data |-> list]
PlexError == [ok |-> FALSE, data |-> <<>>]

\* POST /login: a response whose JSON has data.token, a response without
\* it, a response that raise_for_status() turns into HTTPError, or no response
\* (requests.post raises ConnectionError).
LoginOk(t) == [status |-> "ok", token |-> t]
LoginNoToken == [status |-> "ok", token |-> Absent]
LoginRejected == [status |-> "http_error", token |-> Absent]
LoginUnreachable == [status |-> "connection_error", token |-> Absent]
LoginResponses == {LoginOk(StrV("token")), LoginNoToken, LoginRejected, LoginUnreachable}

\* GET /search: the "data" list, or a failed request.
SearchOk(results) == [ok |-> TRUE, data |-> results]
SearchError == [ok |-> FALSE, data |-> <<>>]

\* GET /series/{id}/episodes/default: a failed request, or the payload's
\* data.episodes and the shape of its links.
PageError == [status |-> "error", episodes |-> <<>>, links |-> "none"]
PageOk(batch, links) == [status |-> "ok", episodes |-> batch, links |-> links]

\* The mark that ends the page list of a provider without a last page: every
\* later page is answered like the page before the mark.
AndSoOn == [status |-> "and_so_on", episodes |-> <<>>, links |-> "none"]

\* A page past the last one the snapshot lists: an empty batch, or the last
\* page again when the list ends with AndSoOn.
PageResponse(id, p) ==
    IF id \notin DOMAIN episode_db THEN PageOk(<<>>, "none")
    ELSE LET pages == episode_db[id]
         IN IF p + 1 \in DOMAIN pages /\ pages[p + 1] # AndSoOn
            THEN pages[p + 1]
            ELSE IF Len(pages) > 1 /\ pages[Len(pages)] = AndSoOn
            THEN pages[Len(pages) - 1]
            ELSE PageOk(<<>>, "none")

SeqsUpTo(S, n) == UNION {[1..k -> S] : k \in 0..n}

NumShows == 2
MaxPages == 2

Years == {Null, IntV(2015)}

LibraryLists ==
    {PlexError,
     PlexList(<<>>),
     PlexList(<<PlexEpisode(IntV(1), IntV(1)), PlexEpisode(IntV(1), IntV(2))>>)}

LibraryShows == {Show(t, y, l) : t \in Titles, y \in Years, l \in LibraryLists}

LibrarySearch ==
    [t \in Titles |->
        IF t = "A"
        THEN SearchOk(<<SearchResult(IntV(1), StrV("2010")),
                        SearchResult(IntV(2), StrV("2015"))>>)
        ELSE SearchOk(<<SearchResult(IntV(3), Absent)>>)]

LibraryEpisodes ==
    [id \in 1..3 |->
        CASE id = 1 ->
               <<PageOk(<<TvdbEpisode(IntV(1), IntV(1), StrV("Pilot"), StrV("2010-01-01")),
                          TvdbEpisode(IntV(1), IntV(2), StrV("Two"), StrV("2010-01-08"))>>,
                        "none")>>
          [] id = 2 ->
               <<PageOk(<<TvdbEpisode(IntV(1), IntV(2), StrV("Second"), StrV("2015-01-08"))>>,
                        "next"),
                 PageOk(<<TvdbEpisode(IntV(2), IntV(1), StrV("Return"), StrV("2016-01-01"))>>,
                        "none")>>
          [] id = 3 ->
               <<PageOk(<<TvdbEpisode(IntV(2), IntV(1), StrV("Back"), Absent),
                          TvdbEpisode(IntV(1), IntV(3), Absent, StrV(""))>>,
                        "none")>>]

\* A library of up to NumShows shows against one catalog.
InitLibrary ==
    /\ all_shows \in SeqsUpTo(LibraryShows, NumShows)
    /\ search_db = LibrarySearch
    /\ episode_db = LibraryEpisodes
    /\ login \in LoginResponses
    /\ StartOfRun
    /\ NoRangeCall
    /\ run_no = 1
    /\ previous_stdout = <<>>

Init == InitLibrary

\* One show against every page sequence of up to MaxPages pages.
T11 == TvdbEpisode(IntV(1), IntV(1), StrV("Pilot"), StrV("2010-01-01"))
T11again == TvdbEpisode(IntV(1), IntV(1), Null, Absent)
T12 == TvdbEpisode(IntV(1), IntV(2), Absent, StrV("2010-01-08"))
T21 == TvdbEpisode(IntV(2), IntV(1), StrV("Return"), Null)
T01 == TvdbEpisode(IntV(0), IntV(1), StrV("Special"), StrV(""))
TNoSeason == TvdbEpisode(Absent, IntV(2), StrV("Lost"), StrV(""))
TStrSeason == TvdbEpisode(StrV("1"), IntV(1), StrV("Pilot"), StrV(""))

TvdbEntries == {T11, T11again, T12, T21, T01, TNoSeason, TStrSeason}

PageResponses ==
    {PageError, PageOk(<<>>, "none")}
        \cup {PageOk(<<e>>, l) : e \in TvdbEntries, l \in {"next", "none", "malformed"}}

ShowLists ==
    {PlexList(<<>>),
     PlexList(<<PlexEpisode(IntV(1), IntV(1))>>),
     PlexList(<<PlexEpisode(IntV(1), IntV(2)), PlexEpisode(IntV(2), IntV(1)),
                PlexEpisode(IntV(3), IntV(1))>>),
     PlexList(<<PlexEpisode(IntV(0), IntV(1)), PlexEpisode(Null, IntV(2)),
                PlexEpisode(IntV(1), Null), PlexEpisode(IntV(2), IntV(1))>>)}

InitPages ==
    /\ \E l \in ShowLists : all_shows = <<Show("A", Null, l)>>
    /\ search_db = [t \in Titles |-> SearchOk(<<SearchResult(IntV(1), Absent)>>)]
    /\ \E pages \in SeqsUpTo(PageResponses, MaxPages) : episode_db = [id \in {1} |-> pages]

\* One show against every search response of up to two results.
SearchResults ==
    {SearchResult(IntV(1), StrV("2010")), SearchResult(IntV(2), StrV("2015")),
     SearchResult(IntV(3), Absent), SearchResult(Absent, StrV("2015"))}

SearchResponses == {SearchError} \cup {SearchOk(r) : r \in SeqsUpTo(SearchResults, 2)}

InitSearch ==
    /\ \E y \in {Null, IntV(2010), IntV(2015)}, l \in {PlexError, PlexList(<<>>)} :
           all_shows = <<Show("A", y, l)>>
    /\ \E r \in SearchResponses : search_db = [t \in Titles |-> r]
    /\ episode_db = LibraryEpisodes

InitShow ==
    /\ InitPages \/ InitSearch
    /\ login = LoginOk(StrV("token"))
    /\ StartOfRun
    /\ NoRangeCall
    /\ run_no = 1
    /\ previous_stdout = <<>>

\* One show with one Plex episode and one TVDB episode, of every numbering:
\* a number that is None (or a key that is absent), negative, zero, positive.
NumberValues == {Null, IntV(-1), IntV(0), IntV(1), IntV(2)}

InitNormalize ==
    /\ \E s \in NumberValues, e \in NumberValues :
           all_shows = <<Show("A", Null, PlexList(<<PlexEpisode(s, e)>>))>>
    /\ search_db = [t \in Titles |-> SearchOk(<<SearchResult(IntV(1), Absent)>>)]
    /\ \E s \in NumberValues \cup {Absent, StrV("1")}, e \in NumberValues \cup {Absent} :
           episode_db =
               [id \in {1} |->
                   <<PageOk(<<TvdbEpisode(s, e, StrV("Pilot"), StrV(""))>>, "none")>>]
    /\ login = LoginOk(StrV("token"))
    /\ StartOfRun
    /\ NoRangeCall
    /\ run_no = 1
    /\ previous_stdout = <<>>

\* One show more than the pool has threads: a first show that is matched,
\* or whose Plex read fails, and shows that TVDB does not know.
PoolLeads == {Show("A", IntV(2015), PlexList(<<>>)), Show("A", Null, PlexError)}

InitPool ==
    /\ \E lead \in PoolLeads :
           all_shows = [i \in 1..(max_workers + 1) |->
                           IF i = 1 THEN lead ELSE Show("B", Null, PlexList(<<>>))]
    /\ search_db = [t \in Titles |-> IF t = "A" THEN LibrarySearch[t] ELSE SearchOk(<<>>)]
    /\ episode_db = LibraryEpisodes
    /\ login = LoginOk(StrV("token"))
    /\ StartOfRun
    /\ NoRangeCall
    /\ run_no = 1
    /\ previous_stdout = <<>>

(***************************************************************************)
(* The thread pool: ThreadPoolExecutor(max_workers=max_workers).  A task   *)
(* is taken from the executor's FIFO work queue by an idle thread, and     *)
(* there are at most max_workers threads.                                  *)
(***************************************************************************)
Running == {i \in Tasks : pc[i] \in {"search", "fetch"}}

\* A pool that starts a thread for every task.
PoolUnbounded == TRUE

PoolHasIdleThread == Cardinality(Running) < max_workers

\* executor.submit, lines 295-298: the next task of the list is queued.
\* The except clause of _authenticate printing and not raising again: the
\* client is constructed with the token it had.
authenticate_swallow(response) == Returned(Get(response.token))

\* TVDBClient.__init__ and _authenticate, lines 32-64: the token of the
\* response is stored; HTTPError is printed and raised again, every other
\* exception (ConnectionError, KeyError of ["data"]["token"]) is not caught.
authenticate(response) ==
    IF response.status = "ok" /\ response.token # Absent
    THEN Returned(response.token)
    ELSE Raised

\* main, lines 272-274: the client is constructed; an exception of the
\* constructor ends main() with a traceback.
Authenticate ==
    /\ main_pc = "connect"
    /\ LET client == authenticate(login)
       IN IF client.raised
          THEN /\ main_pc' = "auth_failed"
               /\ UNCHANGED token
          ELSE /\ token' = client.value
               /\ main_pc' = "run"
    /\ UNCHANGED <<snapshot, future_to_show, collected, shows_with_missing, stdout,
                   worker_vars, run_vars, range_vars>>

Submit ==
    /\ main_pc = "run"
    /\ future_to_show < Len(all_shows)
    /\ future_to_show' = future_to_show + 1
    /\ pc' = [pc EXCEPT ![future_to_show + 1] = "queued"]
    /\ UNCHANGED <<snapshot, main_pc, token, collected, shows_with_missing, stdout,
                   plex_episodes, series_id, page, episodes, tvdb_episodes,
                   future, progress, warning, stderr, requests, run_vars, range_vars>>

\* The requests of the TVDB client: GET /search (lines 73-78) and
\* GET /series/{id}/episodes/default with params page (lines 97-102).
SearchRequest == <<"search">>
PageRequest(p) == <<"page", p>>

\* What print_stderr wrote, and whether the thread held progress_lock.
\* The client's warnings, lines 87 and 118, are printed by the client, which
\* has no lock; the progress lines, lines 233-234 and 241-247, are printed
\* inside `with progress_lock`.
PrintWarning(line) ==
    IF line = NoWarning THEN <<>> ELSE <<[line |-> line, lock |-> FALSE]>>
PrintProgress(line) ==
    IF line = NoLine THEN <<>> ELSE <<[line |-> line, lock |-> TRUE]>>

\* A thread takes task i and runs check_show to its search request: lines
\* 223-227 read the Plex episodes, and an exception of show.episodes() ends
\* the task with that exception.
StartCheck(i) ==
    /\ pc[i] = "queued"
    /\ \A j \in Tasks : j < i => pc[j] # "queued"
    /\ PoolHasIdleThread
    /\ IF all_shows[i].episodes.ok
       THEN /\ plex_episodes' =
                   [plex_episodes EXCEPT ![i] = get_plex_episodes(all_shows[i].episodes.data)]
            /\ pc' = [pc EXCEPT ![i] = "search"]
            /\ requests' = [requests EXCEPT ![i] = Append(requests[i], SearchRequest)]
            /\ UNCHANGED future
       ELSE /\ pc' = [pc EXCEPT ![i] = "done"]
            /\ future' = [future EXCEPT ![i] = FutureException]
            /\ UNCHANGED <<plex_episodes, requests>>
    /\ UNCHANGED <<snapshot, main_vars, series_id, page, episodes, tvdb_episodes,
                   progress, warning, stderr, run_vars, range_vars>>

\* search_series: the "data" list, and [] with a warning on any exception.
search_series(name) ==
    IF search_db[name].ok
    THEN [results |-> search_db[name].data, warning |-> NoWarning]
    ELSE [results |-> <<>>, warning |-> SearchWarning]

\* The search response arrives: lines 143-157, and lines 232-235 when there
\* is no result.  series["tvdb_id"] raises KeyError when the key is absent.
SearchDone(i) ==
    /\ pc[i] = "search"
    /\ LET show == all_shows[i]
           found == search_series(show.title)
           results == found.results
           series == select_series(results, show.year)
       IN /\ warning' = [warning EXCEPT ![i] = found.warning]
          /\ IF results = <<>>
             THEN /\ tvdb_episodes' = [tvdb_episodes EXCEPT ![i] = TvdbNone]
                  /\ progress' = [progress EXCEPT ![i] = NotFoundLine]
                  /\ stderr' = [stderr EXCEPT ![i] =
                         stderr[i] \o PrintWarning(found.warning) \o PrintProgress(NotFoundLine)]
                  /\ future' = [future EXCEPT ![i] = FutureResult(show.title, EmptyDict)]
                  /\ pc' = [pc EXCEPT ![i] = "done"]
                  /\ UNCHANGED <<series_id, page, episodes, requests>>
             ELSE IF series.tvdb_id = Absent
             THEN /\ future' = [future EXCEPT ![i] = FutureException]
                  /\ pc' = [pc EXCEPT ![i] = "done"]
                  /\ UNCHANGED <<series_id, page, episodes, tvdb_episodes, progress,
                                 stderr, requests>>
             ELSE /\ series_id' = [series_id EXCEPT ![i] = series.tvdb_id]
                  /\ page' = [page EXCEPT ![i] = 0]
                  /\ episodes' = [episodes EXCEPT ![i] = <<>>]
                  /\ requests' = [requests EXCEPT ![i] = Append(requests[i], PageRequest(0))]
                  /\ pc' = [pc EXCEPT ![i] = "fetch"]
                  /\ UNCHANGED <<tvdb_episodes, progress, future, stderr>>
    /\ UNCHANGED <<snapshot, main_vars, plex_episodes, run_vars, range_vars>>

\* One pass of get_series_episodes' loop, lines 95-119, on the response to
\* the request for `page`: what the loop does with it.
\*   stop: the loop is left; episodes: the list after the pass;
\*   warning: the warning printed by the except clause.
\* The except clause giving up what was fetched, as search_series does.
page_pass_reset(fetched, p, response) ==
    IF response.status = "error"
    THEN [stop |-> TRUE, episodes |-> <<>>, warning |-> PageWarning(p)]
    ELSE IF response.episodes = <<>>
    THEN [stop |-> TRUE, episodes |-> fetched, warning |-> NoWarning]
    ELSE IF response.links = "malformed"
    THEN [stop |-> TRUE, episodes |-> fetched \o response.episodes,
          warning |-> PageWarning(p)]
    ELSE [stop |-> response.links # "next",
          episodes |-> fetched \o response.episodes, warning |-> NoWarning]

page_pass(fetched, p, response) ==
    IF response.status = "error"
    THEN [stop |-> TRUE, episodes |-> fetched, warning |-> PageWarning(p)]
    ELSE IF response.episodes = <<>>
    THEN [stop |-> TRUE, episodes |-> fetched, warning |-> NoWarning]
    ELSE IF response.links = "malformed"
    THEN [stop |-> TRUE, episodes |-> fetched \o response.episodes,
          warning |-> PageWarning(p)]
    ELSE [stop |-> response.links # "next",
          episodes |-> fetched \o response.episodes, warning |-> NoWarning]

\* The model follows a fetch for MaxFetch pages: get_series_episodes has no
\* bound on page.
MaxFetch == 3

\* A page left out.
next_page_skip(p) == p + 2

\* Line 116: page += 1
next_page(p) == p + 1

\* check_show after get_series_episodes returned `fetched`: lines 159-173
\* and 232-249.  An exception of the loop over the episodes ends the task.
check_tail(show_name, plex_eps, fetched) ==
    LET normalized == normalize_tvdb(fetched)
        missing == find_missing_episodes(plex_eps, normalized.value)
    IN IF normalized.raised
       THEN [tvdb_episodes |-> NotFetched, progress |-> NoLine,
             future |-> FutureException]
       ELSE IF normalized.value = EmptyDict
       THEN [tvdb_episodes |-> TvdbDict(normalized.value), progress |-> NotFoundLine,
             future |-> FutureResult(show_name, EmptyDict)]
       ELSE [tvdb_episodes |-> TvdbDict(normalized.value),
             progress |-> IF missing # EmptyDict
                          THEN MissingLine(total_missing(missing))
                          ELSE CheckmarkLine,
             future |-> FutureResult(show_name, missing)]

\* The response to the request for page[i] arrives.
FetchPage(i) ==
    /\ pc[i] = "fetch"
    /\ page[i] < MaxFetch
    /\ LET pass == page_pass(episodes[i], page[i], PageResponse(series_id[i][2], page[i]))
           tail == check_tail(all_shows[i].title, plex_episodes[i], pass.episodes)
       IN /\ episodes' = [episodes EXCEPT ![i] = pass.episodes]
          /\ warning' = [warning EXCEPT ![i] = pass.warning]
          /\ IF pass.stop
             THEN /\ tvdb_episodes' = [tvdb_episodes EXCEPT ![i] = tail.tvdb_episodes]
                  /\ progress' = [progress EXCEPT ![i] = tail.progress]
                  /\ stderr' = [stderr EXCEPT ![i] =
                         stderr[i] \o PrintWarning(pass.warning) \o PrintProgress(tail.progress)]
                  /\ future' = [future EXCEPT ![i] = tail.future]
                  /\ pc' = [pc EXCEPT ![i] = "done"]
                  /\ UNCHANGED <<page, requests>>
             ELSE /\ page' = [page EXCEPT ![i] = next_page(page[i])]
                  /\ requests' = [requests EXCEPT ![i] =
                         Append(requests[i], PageRequest(next_page(page[i])))]
                  /\ UNCHANGED <<tvdb_episodes, progress, future, pc, stderr>>
    /\ UNCHANGED <<snapshot, main_vars, plex_episodes, series_id, run_vars, range_vars>>

(***************************************************************************)
(* main(): the as_completed loop, lines 301-304, and the report, lines     *)
(* 306-344.  as_completed yields the futures that are done, those done     *)
(* before the call in no particular order; future.result() raises the      *)
(* task's exception in main.                                               *)
(***************************************************************************)
\* The loop left after the first future.
FirstCollected == collected # {} \/ Tasks = {}

\* The for loop over as_completed(future_to_show) has yielded every future.
AllCollected == collected = Tasks

\* Lines 302-304 on a future's result.
Collect(i) ==
    /\ main_pc = "run"
    /\ future_to_show = Len(all_shows)
    /\ i \notin collected
    /\ pc[i] = "done"
    /\ collected' = collected \cup {i}
    /\ IF future[i].state = "exception"
       THEN /\ main_pc' = "raising"
            /\ UNCHANGED shows_with_missing
       ELSE /\ main_pc' = main_pc
            /\ shows_with_missing' =
                   IF ~future[i].is_none /\ future[i].missing # EmptyDict
                   THEN DictPut(shows_with_missing, future[i].show_name, future[i].missing)
                   ELSE shows_with_missing
    /\ UNCHANGED <<snapshot, token, future_to_show, stdout, worker_vars, run_vars, range_vars>>

\* The exception leaves the with block: the executor's shutdown(wait=True)
\* returns once every task has run, and main() ends with the traceback.
ExecutorExit ==
    /\ main_pc = "raising"
    /\ \A i \in Tasks : pc[i] = "done"
    /\ main_pc' = "aborted"
    /\ UNCHANGED <<snapshot, token, future_to_show, collected, shows_with_missing, stdout,
                   worker_vars, run_vars, range_vars>>

\* Lines 332-340: one season's rows.
EpisodeRows(show_name, season_num, season_eps) ==
    LET nums == sorted(DOMAIN season_eps)
    IN [k \in DOMAIN nums |->
           <<show_name, season_num, nums[k],
             season_eps[nums[k]].title, season_eps[nums[k]].aired>>]

\* Lines 329-340: one show's rows.
ShowRows(show_name, missing) ==
    LET nums == sorted(DOMAIN missing)
    IN Flatten([j \in DOMAIN nums |-> EpisodeRows(show_name, nums[j], missing[nums[j]])])

\* Lines 325-340: the rows of the report.
ReportRows(by_show) ==
    LET names == sorted_names(DOMAIN by_show)
    IN Flatten([n \in DOMAIN names |-> ShowRows(names[n], by_show[names[n]])])

\* Lines 306-344: the header and the rows are written to stdout.
GenerateReport ==
    /\ main_pc = "run"
    /\ future_to_show = Len(all_shows)
    /\ AllCollected
    /\ stdout' = <<Header>> \o ReportRows(shows_with_missing)
    /\ main_pc' = "done"
    /\ UNCHANGED <<snapshot, token, future_to_show, collected, shows_with_missing,
                   worker_vars, run_vars, range_vars>>

\* The program is run again on the same snapshot (line 347-348, a second
\* process): the first run's stdout is kept for comparison.
Rerun ==
    /\ main_pc = "done"
    /\ run_no = 1
    /\ UNCHANGED <<snapshot, range_vars>>
    /\ run_no' = 2
    /\ previous_stdout' = stdout
    /\ main_pc' = "connect"
    /\ token' = Null
    /\ future_to_show' = 0
    /\ collected' = {}
    /\ shows_with_missing' = EmptyDict
    /\ stdout' = <<>>
    /\ pc' = [i \in Tasks |-> "new"]
    /\ plex_episodes' = [i \in Tasks |-> EmptyDict]
    /\ series_id' = [i \in Tasks |-> Null]
    /\ page' = [i \in Tasks |-> 0]
    /\ episodes' = [i \in Tasks |-> <<>>]
    /\ tvdb_episodes' = [i \in Tasks |-> NotFetched]
    /\ future' = [i \in Tasks |-> NoFuture]
    /\ progress' = [i \in Tasks |-> NoLine]
    /\ warning' = [i \in Tasks |-> NoWarning]
    /\ stderr' = [i \in Tasks |-> <<>>]
    /\ requests' = [i \in Tasks |-> <<>>]

\* Two shows checked at the same time against a catalog whose search and
\* pages may fail.
WorkerShows ==
    {Show("A", Null, PlexList(<<>>)), Show("B", Null, PlexList(<<>>)),
     Show("B", Null, PlexError)}

WorkerSearch == {SearchError, SearchOk(<<SearchResult(IntV(1), Absent)>>)}

WorkerPages ==
    {<<PageError>>, <<PageOk(<<T11>>, "next"), PageError>>, <<PageOk(<<T11>>, "none")>>}

InitWorkers ==
    /\ all_shows \in [1..2 -> WorkerShows]
    /\ search_db \in [Titles -> WorkerSearch]
    /\ \E pages \in WorkerPages : episode_db = [id \in {1} |-> pages]
    /\ login = LoginOk(StrV("token"))
    /\ StartOfRun
    /\ NoRangeCall
    /\ run_no = 1
    /\ previous_stdout = <<>>

\* Two shows against a catalog whose series has a last page, a failing page,
\* or no last page: every page has a batch and a next link.
EndlessShows == {Show("A", Null, PlexList(<<>>)), Show("B", Null, PlexError)}

EndlessPages ==
    {<<PageOk(<<T11>>, "none")>>, <<PageError>>, <<PageOk(<<T11>>, "next"), AndSoOn>>}

InitEndless ==
    /\ all_shows \in [1..2 -> EndlessShows]
    /\ search_db = [t \in Titles |-> SearchOk(<<SearchResult(IntV(1), Absent)>>)]
    /\ \E pages \in EndlessPages : episode_db = [id \in {1} |-> pages]
    /\ login = LoginOk(StrV("token"))
    /\ StartOfRun
    /\ NoRangeCall
    /\ run_no = 1
    /\ previous_stdout = <<>>

\* format_episode_ranges is called on an ascending sequence of distinct
\* positive integers; no run of the program is in progress.
MaxEpisode == 11

InitRanges ==
    /\ all_shows = <<>>
    /\ search_db = [t \in Titles |-> SearchError]
    /\ episode_db = <<>>
    /\ login = LoginUnreachable
    /\ StartOfRun
    /\ run_no = 1
    /\ previous_stdout = <<>>
    /\ range_pc = "call"
    /\ \E S \in SUBSET (1..MaxEpisode) : range_episodes = sorted(S)
    /\ range_string = <<>>

FormatRanges ==
    /\ range_pc = "call"
    /\ range_string' = format_episode_ranges(range_episodes)
    /\ range_pc' = "returned"
    /\ UNCHANGED <<snapshot, main_vars, worker_vars, run_vars, range_episodes>>

Next ==
    \/ Authenticate
    \/ Submit
    \/ \E i \in Tasks : StartCheck(i)
    \/ \E i \in Tasks : SearchDone(i)
    \/ \E i \in Tasks : FetchPage(i)
    \/ \E i \in Tasks : Collect(i)
    \/ ExecutorExit
    \/ GenerateReport

Spec == Init /\ [][Next]_vars

NextTwice == Next \/ Rerun

SpecTwice == Init /\ [][NextTwice]_vars

SpecShow == InitShow /\ [][Next]_vars

SpecPool == InitPool /\ [][Next]_vars

SpecNormalize == InitNormalize /\ [][Next]_vars

SpecWorkers == InitWorkers /\ [][Next]_vars

SpecEndless == InitEndless /\ [][Next]_vars

SpecRanges == InitRanges /\ [][FormatRanges]_vars

(***************************************************************************)
(* Properties.                                                             *)
(***************************************************************************)
Done == {i \in Tasks : pc[i] = "done"}

\* The rows of the report, without the header.
Rows == IF stdout = <<>> THEN <<>> ELSE Tail(stdout)

\* C1: failure isolation.  No failure inside a per-show check aborts the
\* run: every check that has ended has returned a result and printed its
\* progress line, and main() is never left by an exception.
C1_FailureIsolation ==
    /\ main_pc \notin {"raising", "aborted"}
    /\ \A i \in Done : future[i].state = "result" /\ progress[i] # NoLine

\* C2: the number of report rows is the sum, over all dispatched shows, of
\* the number of missing episodes the show's check returned.
C2_RowCount ==
    main_pc = "done" =>
        Len(Rows) = SumSeq([i \in Tasks |-> total_missing(future[i].missing)])

\* C3: two runs on the same provider snapshot write the same report, whatever
\* the order the checks complete in.
C3_Determinism ==
    (run_no = 2 /\ main_pc = "done") => stdout = previous_stdout

\* (show_name, season_num, episode_num) of row a before that of row b.
RowBefore(a, b) ==
    \/ TitleOrd(a[1]) < TitleOrd(b[1])
    \/ a[1] = b[1] /\ a[2] < b[2]
    \/ a[1] = b[1] /\ a[2] = b[2] /\ a[3] < b[3]

\* C4: the report rows are in strictly ascending order of (show_name,
\* season_num, episode_num), so no triple appears twice.
C4_RowsAscending ==
    \A k \in 1..(Len(Rows) - 1) : RowBefore(Rows[k], Rows[k + 1])

\* A report in which the show, the season and the episode each change
\* between two adjacent rows.
C4_Witness ==
    /\ main_pc = "done"
    /\ \E k \in 1..(Len(Rows) - 1) : Rows[k][1] # Rows[k + 1][1]
    /\ \E k \in 1..(Len(Rows) - 1) :
           Rows[k][1] = Rows[k + 1][1] /\ Rows[k][2] # Rows[k + 1][2]
    /\ \E k \in 1..(Len(Rows) - 1) :
           Rows[k][1] = Rows[k + 1][1] /\ Rows[k][2] = Rows[k + 1][2]

\* C5: at most max_workers checks are running, each with at most one request
\* (search or page) in flight.
C5_BoundedConcurrency == Cardinality(Running) <= max_workers

\* Every thread of the pool is busy while a task waits in the queue.
C5_Witness ==
    /\ Cardinality(Running) = max_workers
    /\ \E i \in Tasks : pc[i] = "queued"

\* C6: nothing is written to stdout before every dispatched check has ended
\* and its result has been collected.
C6_FullBarrier ==
    stdout # <<>> => (collected = Tasks /\ \A i \in Tasks : pc[i] = "done")

\* The report of a library of two shows has been written.
C6_Witness == stdout # <<>> /\ Cardinality(collected) >= 2

\* The checks whose search gave a result: the show was resolved to a series.
Resolved == {i \in Tasks : pc[i] \in {"fetch", "done"} /\ search_series(all_shows[i].title).results # <<>>}

\* C7: the 'not found' line is printed exactly when the search gave no
\* result; a check of a resolved show that returns prints the checkmark or
\* the missing count.
C7_OutcomeDistinction ==
    \A i \in Done :
        future[i].state = "result" =>
            (progress[i] = NotFoundLine <=> i \notin Resolved)

\* The concatenation of the batches of pages 0..k-1 of a series.
BatchesBefore(id, k) == Flatten([p \in 1..k |-> PageResponse(id, p - 1).episodes])

FailedPage(i) == Len(warning[i]) = 2 /\ warning[i][1] = "page"

\* C8 as stated: when the fetch of page k fails, get_series_episodes returns
\* exactly the batches of pages 0..k-1.
C8_TruncationBefore ==
    \A i \in Done :
        FailedPage(i) => episodes[i] = BatchesBefore(series_id[i][2], warning[i][2])

\* C8 amended: when the fetch of page k fails, get_series_episodes returns
\* the batches of pages 0..k-1, followed by the batch of page k when the
\* failure came after the batch was appended (well-formed episodes, links
\* that are not an object); nothing of a later page.
C8_Truncation ==
    \A i \in Done :
        FailedPage(i) =>
            LET k == warning[i][2]
                id == series_id[i][2]
                at_k == PageResponse(id, k)
            IN /\ page[i] = k
               /\ episodes[i] =
                      BatchesBefore(id, k)
                          \o (IF at_k.status = "ok" THEN at_k.episodes ELSE <<>>)

\* The request for page 1 failed after page 0 gave a batch.
C8_Witness ==
    \E i \in Done :
        /\ FailedPage(i) /\ warning[i][2] = 1
        /\ PageResponse(series_id[i][2], 1).status = "error"
        /\ episodes[i] # <<>>

\* The missing keys computed from the first j fetched episodes.
MissingKeysOf(i, j) ==
    Keys(find_missing_episodes(plex_episodes[i],
                               normalize_tvdb(SubSeq(episodes[i], 1, j)).value))

Normalizes(i, j) == ~normalize_tvdb(SubSeq(episodes[i], 1, j)).raised

\* C9: truncation only under-reports.  The missing keys computed from any
\* prefix of the fetched episodes are among those computed from all of them.
C9_TruncationUnderReports ==
    \A i \in Tasks : \A j \in 0..Len(episodes[i]) :
        (Normalizes(i, j) /\ Normalizes(i, Len(episodes[i]))) =>
            MissingKeysOf(i, j) \subseteq MissingKeysOf(i, Len(episodes[i]))

\* A fetch of two pages where stopping after the first would have reported
\* some, and not all, of the missing episodes, with Plex holding an episode.
C9_Witness ==
    \E i \in Done :
        /\ page[i] = 1 /\ Len(episodes[i]) = 2
        /\ plex_episodes[i] # EmptyDict
        /\ Normalizes(i, 2)
        /\ MissingKeysOf(i, 1) # {}
        /\ MissingKeysOf(i, 1) # MissingKeysOf(i, 2)

\* The checks that compared the two inventories.
Compared == {i \in Done : future[i].state = "result" /\ tvdb_episodes[i].state = "dict"}

\* C10: the missing table holds the key (s, e) exactly when e is a key of
\* tvdb_episodes[s] and not in plex_episodes[s] (the empty set when Plex has
\* no season s), with TVDB's title and air date; so its keys are among
\* TVDB's, and against an empty Plex inventory it is all of TVDB's.
C10_GapCalculator ==
    \A i \in Compared :
        LET L == plex_episodes[i]
            R == tvdb_episodes[i].value
            M == future[i].missing
        IN /\ Keys(M) = {k \in Keys(R) : k[2] \notin DictGetOr(L, k[1], {})}
           /\ \A k \in Keys(M) : M[k[1]][k[2]] = R[k[1]][k[2]]
           /\ Keys(M) \subseteq Keys(R)
           /\ L = EmptyDict => Keys(M) = Keys(R)

\* Plex holds a season TVDB does not list and an episode TVDB lists, and
\* another listed episode is missing.
C10_Witness ==
    \E i \in Compared :
        /\ DOMAIN plex_episodes[i] \ DOMAIN tvdb_episodes[i].value # {}
        /\ future[i].missing # EmptyDict
        /\ Keys(future[i].missing) # Keys(tvdb_episodes[i].value)

\* The Plex entry p and the TVDB entry t carry the same season value and the
\* same episode value.
SameNumbers(p, t) ==
    /\ Get(t.seasonNumber) = p.seasonNumber
    /\ Get(t.number) = p.episodeNumber

\* The entry's numbers are in the task's normalized Plex inventory.
InPlexInventory(i, p) ==
    IF p.seasonNumber = Null \/ p.episodeNumber = Null THEN FALSE
    ELSE /\ p.seasonNumber[2] \in DOMAIN plex_episodes[i]
         /\ p.episodeNumber[2] \in plex_episodes[i][p.seasonNumber[2]]

\* The entry's numbers are in the task's normalized TVDB inventory.
InTvdbInventory(i, t) ==
    IF Get(t.seasonNumber) = Null \/ Get(t.number) = Null THEN FALSE
    ELSE <<Get(t.seasonNumber)[2], Get(t.number)[2]>> \in Keys(tvdb_episodes[i].value)

\* C11: the two normalizers apply the same filter.  A Plex entry and a TVDB
\* entry with the same season and episode values (absent, or any integer)
\* are both kept or both dropped, and kept exactly when both numbers are
\* present and the season is above 0.
C11_SameFilter ==
    \A i \in Compared :
        \A a \in DOMAIN all_shows[i].episodes.data : \A b \in DOMAIN episodes[i] :
            LET p == all_shows[i].episodes.data[a]
                t == episodes[i][b]
            IN SameNumbers(p, t) =>
                   /\ InPlexInventory(i, p) <=> InTvdbInventory(i, t)
                   /\ InPlexInventory(i, p) <=>
                          (p.seasonNumber # Null /\ p.episodeNumber # Null
                              /\ p.seasonNumber[2] > 0)

\* The title and the air date the specification gives a raw TVDB entry:
\* the default when the key is absent or its value is null.
NullSafeData(episode) ==
    [title |-> IF Get(episode.name) = Null THEN StrV("Unknown Title")
               ELSE Get(episode.name),
     aired |-> IF Get(episode.aired) = Null THEN StrV("") ELSE Get(episode.aired)]

\* The raw entries of the task that carry the numbers (s, e).
RawWithKey(i, s, e) ==
    {b \in DOMAIN episodes[i] :
        /\ Get(episodes[i][b].seasonNumber) = IntV(s)
        /\ Get(episodes[i][b].number) = IntV(e)}

\* C12: null-safe payloads.  Every normalized TVDB entry and every report
\* row carries a title string and an air-date string, never null: the title
\* of an entry whose name is absent or null is "Unknown Title", its air date
\* is "" when aired is absent or null.
C12_NullSafePayloads ==
    /\ \A i \in Tasks :
           tvdb_episodes[i].state = "dict" =>
               \A k \in Keys(tvdb_episodes[i].value) :
                   LET data == tvdb_episodes[i].value[k[1]][k[2]]
                   IN /\ IsStr(data.title)
                      /\ IsStr(data.aired)
                      /\ \E b \in RawWithKey(i, k[1], k[2]) :
                             data = NullSafeData(episodes[i][b])
    /\ \A r \in DOMAIN Rows : IsStr(Rows[r][4]) /\ IsStr(Rows[r][5])

\* The tasks whose search has answered.
Searched == {i \in Tasks : pc[i] \in {"fetch", "done"} /\ all_shows[i].episodes.ok}

\* The candidates of the task's search whose year equals the show's year.
YearMatches(i) ==
    LET results == search_series(all_shows[i].title).results
    IN {k \in DOMAIN results :
           /\ Get(results[k].year) # Null
           /\ PyStr(Get(results[k].year)) = PyStr(all_shows[i].year)}

\* The candidate the tie-break names: the first one of the show's year when
\* the show has a year and there is one, the first candidate otherwise.
Resolution(i) ==
    LET results == search_series(all_shows[i].title).results
    IN IF all_shows[i].year # Null /\ YearMatches(i) # {}
       THEN results[SetMin(YearMatches(i))]
       ELSE results[1]

\* C13: resolution tie-break.  The series whose episodes are fetched is the
\* first candidate whose year equals the show's year when the show has a
\* year and such a candidate exists, the first candidate otherwise; an
\* empty candidate list yields "not found" and no episode fetch is issued.
C13_ResolutionTieBreak ==
    \A i \in Searched :
        IF search_series(all_shows[i].title).results = <<>>
        THEN /\ pc[i] = "done"
             /\ tvdb_episodes[i] = TvdbNone
             /\ progress[i] = NotFoundLine
             /\ series_id[i] = Null
             /\ episodes[i] = <<>>
             /\ requests[i] = <<SearchRequest>>
        ELSE Resolution(i).tvdb_id # Absent => series_id[i] = Resolution(i).tvdb_id

\* A show of 2015 whose second candidate is the one of 2015 is resolved to
\* the second candidate.
C13_Witness ==
    \E i \in Searched :
        /\ all_shows[i].year = IntV(2015)
        /\ Len(search_series(all_shows[i].title).results) = 2
        /\ YearMatches(i) = {2}
        /\ series_id[i] = IntV(2)

\* The positions of the task's raw list whose entry is retained: a season
\* above 0 and an episode number.
Retained(i) ==
    {b \in DOMAIN episodes[i] :
        LET season_num == Get(episodes[i][b].seasonNumber)
            episode_num == Get(episodes[i][b].number)
        IN /\ IsInt(season_num) /\ season_num[2] > 0
           /\ IsInt(episode_num) /\ episode_num[2] # 0}

RetainedKey(i, b) ==
    <<Get(episodes[i][b].seasonNumber)[2], Get(episodes[i][b].number)[2]>>

\* C14: last-wins normalization.  The normalized TVDB inventory has exactly
\* the keys of the retained entries of the raw list (all fetched pages, in
\* order), and holds for each key the title and the air date of the last
\* retained entry with that key.
C14_LastWins ==
    \A i \in Tasks :
        tvdb_episodes[i].state = "dict" =>
            /\ Keys(tvdb_episodes[i].value) = {RetainedKey(i, b) : b \in Retained(i)}
            /\ \A b \in Retained(i) :
                   LET k == RetainedKey(i, b)
                       last == SetMax({c \in Retained(i) : RetainedKey(i, c) = k})
                   IN tvdb_episodes[i].value[k[1]][k[2]] = EpisodeData(episodes[i][last])

\* Two retained entries with the same numbers and different titles have been
\* normalized.
C14_Witness ==
    \E i \in Tasks :
        /\ tvdb_episodes[i].state = "dict"
        /\ \E b, c \in Retained(i) :
               /\ b < c
               /\ RetainedKey(i, b) = RetainedKey(i, c)
               /\ EpisodeData(episodes[i][b]) # EpisodeData(episodes[i][c])

\* A request has been issued or a check dispatched.
Dispatched == future_to_show > 0 \/ \E i \in Tasks : pc[i] # "new"

C15_Gate ==
    /\ Dispatched => (login.status = "ok" /\ IsStr(login.token) /\ token = login.token)
    /\ token # Null => token = login.token
    /\ (login.status # "ok" \/ login.token = Absent) =>
           /\ main_pc \in {"connect", "auth_failed"}
           /\ token = Null
    /\ main_pc = "auth_failed" => (~Dispatched /\ stdout = <<>>)

C15_Step ==
    /\ token # Null => token' = token
    /\ main_pc = "auth_failed" => main_pc' = "auth_failed" /\ stdout' = <<>>

\* C15: authentication gates everything.  No check is dispatched and no
\* search or page request is issued unless the authentication of the client's
\* construction succeeded and stored a token; when it fails the run ends
\* without a report; a stored token is never changed.
C15_AuthenticationGates == []C15_Gate /\ [][C15_Step]_vars

\* A search request is in flight, with the token stored.
C15_Witness ==
    /\ token = StrV("token")
    /\ \E i \in Tasks : pc[i] = "search"

\* Reading a range string back.
\* The first position of the character c in str, 0 when it has none.
Find(str, c) ==
    IF \E k \in DOMAIN str : str[k] = c
    THEN SetMin({k \in DOMAIN str : str[k] = c})
    ELSE 0

\* str.split(", ") of a non-empty str.
RECURSIVE SplitTokens(_)
SplitTokens(str) ==
    LET k == Find(str, ",")
    IN IF k = 0 THEN <<str>>
       ELSE <<SubSeq(str, 1, k - 1)>> \o SplitTokens(SubSeq(str, k + 2, Len(str)))

\* Every comma is followed by one space, and a character follows the space.
CommaSpaceJoined(str) ==
    \A k \in DOMAIN str :
        /\ str[k] = "," => (k + 2 <= Len(str) /\ str[k + 1] = " ")
        /\ str[k] = " " => (k > 1 /\ str[k - 1] = ",")

\* A decimal numeral without a leading zero.
IsNumeral(str) ==
    /\ str # <<>>
    /\ \A k \in DOMAIN str : \E d \in DOMAIN Digits : Digits[d] = str[k]
    /\ str[1] # "0"

\* int(str) of a numeral.
RECURSIVE ParseInt(_)
ParseInt(str) ==
    IF str = <<>> THEN 0
    ELSE LET last == str[Len(str)]
             d == CHOOSE v \in DOMAIN Digits : Digits[v] = last
         IN 10 * ParseInt(SubSeq(str, 1, Len(str) - 1)) + (d - 1)

\* A token is a numeral, or two numerals around one "-".
IsToken(tok) ==
    LET k == Find(tok, "-")
    IN IF k = 0 THEN IsNumeral(tok)
       ELSE /\ IsNumeral(SubSeq(tok, 1, k - 1))
            /\ IsNumeral(SubSeq(tok, k + 1, Len(tok)))

TokenStart(tok) ==
    LET k == Find(tok, "-")
    IN IF k = 0 THEN ParseInt(tok) ELSE ParseInt(SubSeq(tok, 1, k - 1))

TokenEnd(tok) ==
    LET k == Find(tok, "-")
    IN IF k = 0 THEN ParseInt(tok) ELSE ParseInt(SubSeq(tok, k + 1, Len(tok)))

\* The tokens of the returned string.
RangeTokens == IF range_string = <<>> THEN <<>> ELSE SplitTokens(range_string)

\* C16: Range Compactor round-trip.  For an ascending sequence of distinct
\* positive integers the returned string is tokens joined by ", ", each a
\* single number or start-end with start < end; no two adjacent tokens could
\* be merged (each is a maximal run); expanding the tokens gives exactly the
\* input set; the empty sequence gives "" and one element gives that element.
C16_RoundTrip ==
    range_pc = "returned" =>
        /\ CommaSpaceJoined(range_string)
        /\ \A k \in DOMAIN RangeTokens :
               /\ IsToken(RangeTokens[k])
               /\ Find(RangeTokens[k], "-") # 0 =>
                      TokenStart(RangeTokens[k]) < TokenEnd(RangeTokens[k])
               /\ k > 1 => TokenEnd(RangeTokens[k - 1]) + 1 < TokenStart(RangeTokens[k])
        /\ UNION {TokenStart(RangeTokens[k])..TokenEnd(RangeTokens[k]) :
                      k \in DOMAIN RangeTokens}
               = {range_episodes[k] : k \in DOMAIN range_episodes}
        /\ range_episodes = <<>> => range_string = <<>>
        /\ Len(range_episodes) = 1 => range_string = Str(range_episodes[1])

\* The spec's example with two-digit numbers: a run across 9-10, a single
\* number, and a run, have been compacted.
C16_Witness ==
    /\ range_pc = "returned"
    /\ range_episodes = <<1, 2, 3, 5, 9, 10, 11>>
    /\ range_string = <<"1", "-", "3", ",", " ", "5", ",", " ", "9", "-", "1", "1">>

\* The lines task i prints in this step.
Printed(i) == {k \in DOMAIN stderr'[i] : k > Len(stderr[i])}

\* Every line a worker prints while another worker is running is printed
\* with progress_lock held.
C17_Step ==
    \A i \in Tasks :
        (Running \ {i}) # {} => \A k \in Printed(i) : stderr'[i][k].lock

\* C17: mutual exclusion on the shared sinks.  Every line a worker writes to
\* stderr while other workers run, a progress line or a warning of the TVDB
\* client, is written with progress_lock held; and shows_with_missing is
\* written by main() alone, for futures that are done.
C17_MutualExclusion ==
    /\ [][C17_Step]_vars
    /\ [](\A n \in DOMAIN shows_with_missing :
             \E i \in collected : future[i].state = "result" /\ future[i].show_name = n)

\* The response the snapshot gives to task i's request for page p.
Answer(i, p) == PageResponse(series_id[i][2], p)

\* C18: no retry and in-order paging.  A task's requests are one search
\* request, then the pages 0, 1, 2, ... in order, each once; page p + 1 is
\* requested only when page p was answered with a non-empty batch and a
\* "next" link, so nothing is requested after a failed page; pages are
\* requested only for a search that gave a result.
C18_InOrderPaging ==
    \A i \in Tasks :
        /\ (pc[i] \in {"search", "fetch"} \/ i \in Searched) <=> requests[i] # <<>>
        /\ \A k \in DOMAIN requests[i] :
               /\ k = 1 => requests[i][k] = SearchRequest
               /\ k > 1 => requests[i][k] = PageRequest(k - 2)
               /\ k > 1 => search_series(all_shows[i].title).results # <<>>
               /\ k > 2 =>
                      /\ Answer(i, k - 3).status = "ok"
                      /\ Answer(i, k - 3).episodes # <<>>
                      /\ Answer(i, k - 3).links = "next"
        /\ pc[i] = "search" => Len(requests[i]) = 1
        /\ pc[i] = "fetch" => Len(requests[i]) = page[i] + 2

\* A task has requested the search, page 0 and page 1, and page 1 failed:
\* nothing was requested after it.
C18_Witness ==
    \E i \in Tasks :
        /\ pc[i] = "done"
        /\ requests[i] = <<SearchRequest, PageRequest(0), PageRequest(1)>>
        /\ Answer(i, 1).status = "error"

\* A missing table with a season, and an episode in every season.
RealGaps(missing) ==
    /\ DOMAIN missing # {}
    /\ \A s \in DOMAIN missing : DOMAIN missing[s] # {}

\* C19: the aggregate holds only real gaps.  Every show in
\* shows_with_missing has a season and every season of a missing table has
\* an episode; a check that finds nothing missing returns None, is not
\* inserted, and gives no row.
C19_OnlyRealGaps ==
    /\ \A n \in DOMAIN shows_with_missing :
           /\ RealGaps(shows_with_missing[n])
           /\ \E i \in collected :
                  /\ future[i].state = "result"
                  /\ future[i].show_name = n
                  /\ ~future[i].is_none
                  /\ future[i].missing = shows_with_missing[n]
    /\ \A i \in Tasks :
           future[i].state = "result" =>
               /\ future[i].is_none <=> future[i].missing = EmptyDict
               /\ ~future[i].is_none => RealGaps(future[i].missing)
               /\ tvdb_episodes[i].state = "dict" =>
                      (future[i].is_none <=>
                          \A k \in Keys(tvdb_episodes[i].value) :
                              /\ k[1] \in DOMAIN plex_episodes[i]
                              /\ k[2] \in plex_episodes[i][k[1]])
    /\ \A r \in DOMAIN Rows : Rows[r][1] \in DOMAIN shows_with_missing

\* The report is written; a show with every TVDB episode in Plex returned
\* None and is not in the aggregate, which holds another show.
C19_Witness ==
    /\ main_pc = "done"
    /\ shows_with_missing # EmptyDict
    /\ \E i \in collected :
           /\ future[i].state = "result"
           /\ future[i].is_none
           /\ tvdb_episodes[i].state = "dict"
           /\ tvdb_episodes[i].value # EmptyDict
           /\ future[i].show_name \notin DOMAIN shows_with_missing

\* C20: termination of the run.  Every network call returning, a fetch of
\* episodes leaves its loop whatever the provider answers, a provider with
\* a batch and a next link on every page included: no fetch is still in
\* its loop when MaxFetch pages have been answered; so every check that was
\* dispatched completes, and main() ends with the report.
C20_Termination ==
    /\ \A i \in Tasks : pc[i] = "fetch" => page[i] < MaxFetch
    /\ main_pc # "aborted"

====
